---- MODULE Spec2Model ----
(***************************************************************************)
(* A model of drake's symbolic code generator                              *)
(* (src/common/symbolic_codegen.cc): the CodeGenVisitor that lowers a      *)
(* symbolic expression to C text, the scalar emitter CodeGen and the batch *)
(* emitters internal::CodeGenData / internal::CodeGenMeta.                 *)
(*                                                                         *)
(* Text is modelled as TLA+ strings, byte for byte.  A double is modelled  *)
(* as a decimal [neg, m, e] standing for (-1)^neg * m * 10^e, normalised   *)
(* so that m has no trailing zero (zero is [FALSE, 0, 0]).  A thrown       *)
(* runtime_error is modelled as a result record with ok = FALSE carrying   *)
(* the message.                                                            *)
(***************************************************************************)
EXTENDS Integers, Sequences, FiniteSets, TLC

(***************************************************************************)
(* Bounds of the model.                                                    *)
(***************************************************************************)
\* Variable identities are 1..NumVars; parameter lists hold up to NumVars of
\* them.
NumVars == 2
\* Largest number of cells handed to CodeGenData, and largest rows and cols
\* handed to CodeGenMeta.
MaxCells == 2

(***************************************************************************)
(* Decimal arithmetic helpers.                                             *)
(***************************************************************************)
RECURSIVE Pow10(_)
Pow10(n) == IF n <= 0 THEN 1 ELSE 10 * Pow10(n - 1)

RECURSIVE NumDigits(_)
NumDigits(n) == IF n < 10 THEN 1 ELSE 1 + NumDigits(n \div 10)

RECURSIVE StripZeros(_)
StripZeros(n) == IF n # 0 /\ n % 10 = 0 THEN StripZeros(n \div 10) ELSE n

RECURSIVE CountZeros(_)
CountZeros(n) == IF n # 0 /\ n % 10 = 0 THEN 1 + CountZeros(n \div 10) ELSE 0

\* n / d rounded to the nearest integer, ties to even (the default rounding
\* mode of the C library's conversions).
RoundDiv(n, d) ==
    LET q == n \div d
        r == n % d
    IN  IF 2 * r > d \/ (2 * r = d /\ q % 2 = 1) THEN q + 1 ELSE q

\* The double with decimal value (-1)^neg * m * 10^e, normalised.
Dec(neg, m, e) ==
    IF m = 0 THEN [neg |-> FALSE, m |-> 0, e |-> 0]
    ELSE [neg |-> neg, m |-> StripZeros(m), e |-> e + CountZeros(m)]

(***************************************************************************)
(* Number-to-text conversions of the C++ library used by the generator.    *)
(***************************************************************************)
DigitChar(d) ==
    CASE d = 0 -> "0" [] d = 1 -> "1" [] d = 2 -> "2" [] d = 3 -> "3"
      [] d = 4 -> "4" [] d = 5 -> "5" [] d = 6 -> "6" [] d = 7 -> "7"
      [] d = 8 -> "8" [] d = 9 -> "9"

\* std::to_string(size_t) and operator<<(int): decimal digits, no padding.
RECURSIVE IntToString(_)
IntToString(n) ==
    IF n < 0 THEN "-" \o IntToString(-n)
    ELSE IF n < 10 THEN DigitChar(n)
    ELSE IntToString(n \div 10) \o DigitChar(n % 10)

\* n written with exactly w digits (leading zeros).
RECURSIVE PadDigits(_, _)
PadDigits(n, w) ==
    IF w <= 0 THEN "" ELSE PadDigits(n \div 10, w - 1) \o DigitChar(n % 10)

\* std::to_string(double) is sprintf("%f"): fixed notation, six digits after
\* the point.
ToStringPrecision == 6

to_string(c) ==
    LET s == c.e + ToStringPrecision
        q == IF s >= 0 THEN c.m * Pow10(s) ELSE RoundDiv(c.m, Pow10(-s))
        unit == Pow10(ToStringPrecision)
    IN  (IF c.neg THEN "-" ELSE "") \o IntToString(q \div unit) \o "."
            \o PadDigits(q % unit, ToStringPrecision)

\* operator<<(double) on a default-constructed stream is sprintf("%g") with
\* precision 6: six significant digits, trailing zeros removed, scientific
\* notation when the decimal exponent is < -4 or >= the precision.
StreamPrecision == 6

StreamDouble(c) ==
    IF c.m = 0 THEN "0"
    ELSE
    LET nd  == NumDigits(c.m)
        r   == IF nd > StreamPrecision
                 THEN RoundDiv(c.m, Pow10(nd - StreamPrecision))
                 ELSE c.m
        \* decimal exponent of the leading digit, after rounding
        X   == (nd - 1 + c.e) + (IF NumDigits(r) > StreamPrecision /\ nd > StreamPrecision THEN 1 ELSE 0)
        sig == StripZeros(r)
        k   == NumDigits(sig)
        es  == X - (k - 1)
        sgn == IF c.neg THEN "-" ELSE ""
        absX == IF X < 0 THEN -X ELSE X
    IN  IF X < -4 \/ X >= StreamPrecision
        THEN sgn \o DigitChar(sig \div Pow10(k - 1))
                 \o (IF k > 1 THEN "." \o PadDigits(sig % Pow10(k - 1), k - 1) ELSE "")
                 \o "e" \o (IF X < 0 THEN "-" ELSE "+")
                 \o (IF absX < 10 THEN "0" ELSE "") \o IntToString(absX)
        ELSE IF es >= 0
        THEN sgn \o IntToString(sig * Pow10(es))
        ELSE sgn \o IntToString(sig \div Pow10(-es)) \o "."
                 \o PadDigits(sig % Pow10(-es), -es)

(***************************************************************************)
(* Expressions (the external symbolic library's tagged variant) and the    *)
(* accessors the visitor uses.                                             *)
(***************************************************************************)
Variable(id) == [kind |-> "Variable", id |-> id]
Constant(v) == [kind |-> "Constant", v |-> v]
\* Addition: constant plus the expr_to_coeff_map, given as the sequence of its
\* (expression, coefficient) items in the map's iteration order.
Addition(c, map) == [kind |-> "Addition", c |-> c, map |-> map]
\* Multiplication: constant times the base_to_exponent_map, given as the
\* sequence of its (base, exponent) items in the map's iteration order.
Multiplication(c, map) == [kind |-> "Multiplication", c |-> c, map |-> map]
Unary(kind, arg) == [kind |-> kind, arg |-> arg]
Binary(kind, first, second) == [kind |-> kind, first |-> first, second |-> second]
IfThenElse == [kind |-> "IfThenElse"]
UninterpretedFunction == [kind |-> "UninterpretedFunction"]

One == Dec(FALSE, 1, 0)
Zero == Dec(FALSE, 0, 0)

\* is_one(e): e is the constant expression 1.0.
is_one(e) == e.kind = "Constant" /\ e.v = One

(***************************************************************************)
(* Results: a returned string, or a thrown runtime_error.                  *)
(***************************************************************************)
Returned(text) == [ok |-> TRUE, text |-> text, what |-> ""]
Thrown(what) == [ok |-> FALSE, text |-> "", what |-> what]

UnboundVariable == "Variable index is not found."
UnsupportedIfThenElse == "Codegen does not support if-then-else expressions."
UnsupportedUninterpretedFunction == "Codegen does not support uninterpreted functions."

(***************************************************************************)
(* The state: one caller driving the generator, one call at a time (the    *)
(* functions are synchronous).                                             *)
(*   build       the evaluation orders the build has fixed (see below)     *)
(*   pc          what the caller holds: "idle", or the call that has just  *)
(*               returned or thrown                                        *)
(*   call        the last call: its arguments and its outcome              *)
(*   batch       the CodeGenData call that wrote to os before call, if any *)
(*   os          the caller's stream handed to CodeGenData / CodeGenMeta   *)
(*   kept        a scalar call the caller has kept for comparison          *)
(*                                                                         *)
(* The build.  C++ leaves the order in which the operands of operator+     *)
(* are evaluated unspecified, and before C++17 also those of a chain of    *)
(* operator<<.  A build fixes one order per site; the model draws it in    *)
(* Init: build.binary for VisitBinary, build.division for VisitDivision,   *)
(* build.pow for the pow line of VisitMultiplication, build.data for the   *)
(* statement line of CodeGenData.  TRUE means the right operand (the later *)
(* lowering) is evaluated first.                                           *)
(***************************************************************************)
VARIABLES build, pc, call, batch, os, kept

Builds == [binary : BOOLEAN, division : BOOLEAN, pow : BOOLEAN, data : BOOLEAN]

\* The outcome of evaluating two sub-lowerings ra (written first) and rb
\* (written second) when the build evaluates rb first iff rtl: the first
\* exception thrown propagates, and the other operand is never evaluated.
FirstThrown(ra, rb, rtl) ==
    IF rtl THEN (IF ~rb.ok THEN rb ELSE ra)
    ELSE (IF ~ra.ok THEN ra ELSE rb)

(***************************************************************************)
(* CodeGenVisitor.  m is the visitor's id_to_idx_map_.                     *)
(***************************************************************************)
RECURSIVE CodeGenVisitor_CodeGen(_, _)

\* VisitVariable written with operator[], which inserts index 0 for a
\* missing identity instead of reporting it.
VisitVariable_subscript(m, e) ==
    Returned("p[" \o IntToString(IF e.id \in DOMAIN m THEN m[e.id] ELSE 0) \o "]")

VisitVariable(m, e) ==
    IF e.id \notin DOMAIN m
    THEN Thrown(UnboundVariable)
    ELSE Returned("p[" \o IntToString(m[e.id]) \o "]")

VisitConstant(m, e) == Returned(to_string(e.v))

\* The loop of VisitAddition over items i..end of the map, oss being the
\* text streamed so far.
RECURSIVE VisitAdditionLoop(_, _, _, _)
VisitAdditionLoop(m, map, i, oss) ==
    IF i > Len(map) THEN Returned(oss \o ")")
    ELSE
    LET e_i == map[i][1]
        c_i == map[i][2]
        r   == CodeGenVisitor_CodeGen(m, e_i)
    IN  IF ~r.ok THEN r
        ELSE VisitAdditionLoop(m, map, i + 1,
                 oss \o " + " \o
                 (IF c_i = One THEN r.text
                  ELSE "(" \o StreamDouble(c_i) \o " * " \o r.text \o ")"))

\* VisitAddition formatting its constant with to_string, as VisitConstant
\* does.
VisitAddition_to_string(m, e) ==
    VisitAdditionLoop(m, e.map, 1, "(" \o to_string(e.c))

VisitAddition(m, e) ==
    VisitAdditionLoop(m, e.map, 1, "(" \o StreamDouble(e.c))

\* The loop of VisitMultiplication over items i..end of the map.
RECURSIVE VisitMultiplicationLoop(_, _, _, _)
\* The loop of VisitMultiplication without the is_one test: every factor
\* becomes a pow call.
VisitMultiplicationLoop_always_pow(m, map, i, oss) ==
    IF i > Len(map) THEN Returned(oss \o ")")
    ELSE
    LET r1 == CodeGenVisitor_CodeGen(m, map[i][1])
        r2 == CodeGenVisitor_CodeGen(m, map[i][2])
        t  == FirstThrown(r1, r2, build.pow)
    IN  IF ~t.ok THEN t
        ELSE VisitMultiplicationLoop(m, map, i + 1,
                 oss \o " * " \o "pow(" \o r1.text \o ", " \o r2.text \o ")")

VisitMultiplicationLoop(m, map, i, oss) ==
    IF i > Len(map) THEN Returned(oss \o ")")
    ELSE
    LET e_1 == map[i][1]
        e_2 == map[i][2]
        r1  == CodeGenVisitor_CodeGen(m, e_1)
    IN  IF is_one(e_2)
        THEN IF ~r1.ok THEN r1
             ELSE VisitMultiplicationLoop(m, map, i + 1, oss \o " * " \o r1.text)
        ELSE LET r2 == CodeGenVisitor_CodeGen(m, e_2)
                 t  == FirstThrown(r1, r2, build.pow)
             IN  IF ~t.ok THEN t
                 ELSE VisitMultiplicationLoop(m, map, i + 1,
                          oss \o " * " \o "pow(" \o r1.text \o ", " \o r2.text \o ")")

VisitMultiplication(m, e) ==
    VisitMultiplicationLoop(m, e.map, 1, "(" \o StreamDouble(e.c))

VisitUnary(f, m, e) ==
    LET r == CodeGenVisitor_CodeGen(m, e.arg)
    IN  IF ~r.ok THEN r ELSE Returned(f \o "(" \o r.text \o ")")

VisitBinary(f, m, e) ==
    LET r1 == CodeGenVisitor_CodeGen(m, e.first)
        r2 == CodeGenVisitor_CodeGen(m, e.second)
        t  == FirstThrown(r1, r2, build.binary)
    IN  IF ~t.ok THEN t
        ELSE Returned(f \o "(" \o r1.text \o ", " \o r2.text \o ")")

VisitPow(m, e) == VisitBinary("pow", m, e)

VisitDivision(m, e) ==
    LET r1 == CodeGenVisitor_CodeGen(m, e.first)
        r2 == CodeGenVisitor_CodeGen(m, e.second)
        t  == FirstThrown(r1, r2, build.division)
    IN  IF ~t.ok THEN t
        ELSE Returned("(" \o r1.text \o " / " \o r2.text \o ")")

VisitAbs(m, e) == VisitUnary("fabs", m, e)
VisitLog(m, e) == VisitUnary("log", m, e)
VisitExp(m, e) == VisitUnary("exp", m, e)
VisitSqrt(m, e) == VisitUnary("sqrt", m, e)
VisitSin(m, e) == VisitUnary("sin", m, e)
VisitCos(m, e) == VisitUnary("cos", m, e)
VisitTan(m, e) == VisitUnary("tan", m, e)
VisitAsin(m, e) == VisitUnary("asin", m, e)
VisitAcos(m, e) == VisitUnary("acos", m, e)
VisitAtan(m, e) == VisitUnary("atan", m, e)
VisitAtan2(m, e) == VisitBinary("atan2", m, e)
VisitSinh(m, e) == VisitUnary("sinh", m, e)
VisitCosh(m, e) == VisitUnary("cosh", m, e)
VisitTanh(m, e) == VisitUnary("tanh", m, e)
VisitMin(m, e) == VisitBinary("fmin", m, e)
VisitMax(m, e) == VisitBinary("fmax", m, e)
VisitCeil(m, e) == VisitUnary("ceil", m, e)
VisitFloor(m, e) == VisitUnary("floor", m, e)

\* VisitIfThenElse returning an empty fragment instead of throwing.
VisitIfThenElse_silent(m, e) == Returned("")

VisitIfThenElse(m, e) == Thrown(UnsupportedIfThenElse)

VisitUninterpretedFunction(m, e) == Thrown(UnsupportedUninterpretedFunction)

\* CodeGenVisitor::CodeGen: VisitExpression dispatches on the kind of e.
CodeGenVisitor_CodeGen(m, e) ==
    CASE e.kind = "Variable" -> VisitVariable(m, e)
      [] e.kind = "Constant" -> VisitConstant(m, e)
      [] e.kind = "Addition" -> VisitAddition(m, e)
      [] e.kind = "Multiplication" -> VisitMultiplication(m, e)
      [] e.kind = "Division" -> VisitDivision(m, e)
      [] e.kind = "Pow" -> VisitPow(m, e)
      [] e.kind = "Abs" -> VisitAbs(m, e)
      [] e.kind = "Log" -> VisitLog(m, e)
      [] e.kind = "Exp" -> VisitExp(m, e)
      [] e.kind = "Sqrt" -> VisitSqrt(m, e)
      [] e.kind = "Sin" -> VisitSin(m, e)
      [] e.kind = "Cos" -> VisitCos(m, e)
      [] e.kind = "Tan" -> VisitTan(m, e)
      [] e.kind = "Asin" -> VisitAsin(m, e)
      [] e.kind = "Acos" -> VisitAcos(m, e)
      [] e.kind = "Atan" -> VisitAtan(m, e)
      [] e.kind = "Atan2" -> VisitAtan2(m, e)
      [] e.kind = "Sinh" -> VisitSinh(m, e)
      [] e.kind = "Cosh" -> VisitCosh(m, e)
      [] e.kind = "Tanh" -> VisitTanh(m, e)
      [] e.kind = "Min" -> VisitMin(m, e)
      [] e.kind = "Max" -> VisitMax(m, e)
      [] e.kind = "Ceil" -> VisitCeil(m, e)
      [] e.kind = "Floor" -> VisitFloor(m, e)
      [] e.kind = "IfThenElse" -> VisitIfThenElse(m, e)
      [] e.kind = "UninterpretedFunction" -> VisitUninterpretedFunction(m, e)

(***************************************************************************)
(* The emitters.                                                           *)
(***************************************************************************)
\* unordered_map::emplace: inserts unless the key is already present.
Emplace(map, key, value) ==
    IF key \in DOMAIN map THEN map ELSE map @@ (key :> value)

\* The loop that builds id_to_idx_map from positions i.. of parameters; the
\* C++ index of the i-th element of a TLA+ sequence is i - 1.
RECURSIVE EmplaceFrom(_, _, _)
EmplaceFrom(parameters, i, map) ==
    IF i > Len(parameters) THEN map
    ELSE EmplaceFrom(parameters, i + 1, Emplace(map, parameters[i], i - 1))

IdToIndexMap(parameters) == EmplaceFrom(parameters, 1, <<>>)

\* The body of CodeGen(function_name, parameters, e) run on a local stream
\* that holds oss at first: the returned string, or the exception of the
\* lowering (the local stream is then destroyed unseen).
CodeGenFrom(function_name, parameters, e, oss) ==
    LET r == CodeGenVisitor_CodeGen(IdToIndexMap(parameters), e)
    IN  IF ~r.ok THEN r
        ELSE Returned(
            oss \o "double " \o function_name \o "(const double* p) {\n"
            \o "    return " \o r.text \o ";\n"
            \o "}\n"
            \o "typedef struct {\n"
            \o "    /* p: input, vector */\n"
            \o "    struct { int size; } p;\n"
            \o "} " \o function_name \o "_meta_t;\n"
            \o function_name \o "_meta_t " \o function_name
            \o "_meta() { return {{" \o IntToString(Len(parameters)) \o "}}; }\n")

\* CodeGen with a static oss: the stream still holds what an earlier call
\* (the one the caller kept) wrote.
CodeGen_static_oss(function_name, parameters, e) ==
    CodeGenFrom(function_name, parameters, e,
                IF kept.op = "CodeGen" /\ kept.out.ok THEN kept.out.text ELSE "")

\* CodeGen: its oss is a fresh local, empty at every call.
CodeGen(function_name, parameters, e) ==
    CodeGenFrom(function_name, parameters, e, "")

\* The loop of CodeGenData over cells i..size-1 (C++ indices), stream being
\* the text in *os so far.  The result is the stream afterwards and whether
\* (and what) the lowering threw.
RECURSIVE CodeGenDataLoop(_, _, _, _, _)
CodeGenDataLoop(m, data, size, i, stream) ==
    IF i >= size THEN [os |-> stream \o "}\n", ok |-> TRUE, what |-> ""]
    ELSE
    LET r == CodeGenVisitor_CodeGen(m, data[i + 1])
        head == "    " \o "m[" \o IntToString(i) \o "] = "
    IN  IF ~r.ok
        THEN [os |-> IF build.data THEN stream ELSE stream \o head,
              ok |-> FALSE, what |-> r.what]
        ELSE CodeGenDataLoop(m, data, size, i + 1,
                             stream \o head \o r.text \o ";\n")

\* CodeGenData whose loop starts at cell 1.
CodeGenData_from_one(function_name, parameters, data, size, stream) ==
    CodeGenDataLoop(IdToIndexMap(parameters), data, size, 1,
        stream \o "void " \o function_name \o "(const double* p, double* m) {\n")

CodeGenData(function_name, parameters, data, size, stream) ==
    CodeGenDataLoop(IdToIndexMap(parameters), data, size, 0,
        stream \o "void " \o function_name \o "(const double* p, double* m) {\n")

\* CodeGenMeta: the stream afterwards.
CodeGenMeta(function_name, parameter_size, rows, cols, stream) ==
    stream
    \o "typedef struct {\n"
    \o "    /* p: input, vector */\n"
    \o "    struct { int size; } p;\n"
    \o "    /* m: output, matrix */\n"
    \o "    struct { int rows; int cols; } m;\n"
    \o "} " \o function_name \o "_meta_t;\n"
    \o function_name \o "_meta_t " \o function_name \o "_meta() { return {{"
    \o IntToString(parameter_size) \o "}, {" \o IntToString(rows) \o ", "
    \o IntToString(cols) \o "}}; }\n"

(***************************************************************************)
(* The inputs the model draws from.                                        *)
(***************************************************************************)
Two == Dec(FALSE, 2, 0)
Three == Dec(FALSE, 3, 0)

FunctionNames == {"f", "g"}

\* Parameter lists: sequences of pairwise distinct variable identities.
ParameterLists ==
    {s \in UNION {[1..n -> 1..NumVars] : n \in 0..NumVars} :
        \A i, j \in DOMAIN s : i # j => s[i] # s[j]}

Variables == {Variable(id) : id \in 1..NumVars}

ConstantValues == {One, Two, Dec(TRUE, 5, -1), Dec(FALSE, 1, -7), Dec(FALSE, 2, -7)}

Atoms == Variables \cup {Constant(v) : v \in ConstantValues}
            \cup {IfThenElse, UninterpretedFunction}

UnaryKinds == {"Abs", "Log", "Exp", "Sqrt", "Sin", "Cos", "Tan", "Asin", "Acos",
               "Atan", "Sinh", "Cosh", "Tanh", "Ceil", "Floor"}

BinaryKinds == {"Pow", "Atan2", "Min", "Max", "Division"}

UnaryExprs ==
    {Unary(k, a) : k \in UnaryKinds, a \in {Variable(1), IfThenElse}}
    \cup {Unary("Sin", a) : a \in Atoms}

BinaryExprs ==
    {Binary(k, a, b) : k \in BinaryKinds,
                       a \in Variables \cup {IfThenElse},
                       b \in Variables \cup {Constant(Two), UninterpretedFunction}}

\* The iteration order of the library's maps over the keys used here:
\* variables by identity, before the unsupported kinds.
KeyRank(e) ==
    CASE e.kind = "Variable" -> e.id
      [] e.kind = "IfThenElse" -> NumVars + 1
      [] e.kind = "UninterpretedFunction" -> NumVars + 2

\* The maps with one or two items over keys and values, in iteration order.
MapsOver(keys, values) ==
    {<< <<k, v>> >> : k \in keys, v \in values}
    \cup {<< <<k1, v1>>, <<k2, v2>> >> :
            <<k1, v1, k2, v2>> \in
                {t \in keys \X values \X keys \X values : KeyRank(t[1]) < KeyRank(t[3])}}

AdditionExprs ==
    {Addition(c, map) : c \in {Zero, Two},
                        map \in MapsOver(Variables \cup {IfThenElse}, {One, Three})}

MultiplicationExprs ==
    {Multiplication(c, map) :
        c \in {One, Two},
        map \in MapsOver(Variables,
                         {Constant(One), Constant(Two), Variable(1),
                          UninterpretedFunction})}

NestedExprs ==
    {Unary("Sqrt", a) : a \in AdditionExprs}
    \cup {Binary("Pow", u, Constant(Two)) : u \in UnaryExprs}
    \cup {Addition(Zero, << <<b, Three>>, <<mu, One>> >>) :
            b \in {Binary("Division", Variable(1), Variable(NumVars))},
            mu \in MultiplicationExprs}

Expressions ==
    Atoms \cup UnaryExprs \cup BinaryExprs \cup AdditionExprs
        \cup MultiplicationExprs \cup NestedExprs

\* The cells of a batch request.
CellExprs ==
    {Variable(1), Variable(NumVars), IfThenElse,
     Addition(Zero, << <<Variable(1), One>>, <<Variable(NumVars), One>> >>)}

DataArrays == UNION {[1..n -> CellExprs] : n \in 0..MaxCells}

vars == <<build, pc, call, batch, os, kept>>

None == [op |-> "none"]

Init ==
    /\ build \in Builds
    /\ pc = "idle"
    /\ call = None
    /\ batch = None
    /\ os = ""
    /\ kept = None

\* The effect of each call.  The caller makes a call when it holds nothing
\* (pc = "idle", stated by the actions below).
\* The caller constructs CodeGenVisitor(id_to_idx_map) and calls CodeGen(e).
LowerCall(parameters, e) ==
    /\ pc' = "lowered"
    /\ call' = [op |-> "CodeGenVisitor::CodeGen", parameters |-> parameters,
                e |-> e,
                out |-> CodeGenVisitor_CodeGen(IdToIndexMap(parameters), e)]
    /\ UNCHANGED <<build, batch, os, kept>>

\* The caller calls CodeGen(function_name, parameters, e).
ScalarCall(function_name, parameters, e) ==
    /\ pc' = "scalar"
    /\ call' = [op |-> "CodeGen", function_name |-> function_name,
                parameters |-> parameters, e |-> e,
                out |-> CodeGen(function_name, parameters, e)]
    /\ UNCHANGED <<build, batch, os, kept>>

\* The caller calls internal::CodeGenData on its (so far empty) stream.
DataCall(function_name, parameters, data, size) ==
    /\ LET r == CodeGenData(function_name, parameters, data, size, os)
       IN  /\ os' = r.os
           /\ pc' = IF r.ok THEN "data" ELSE "data_thrown"
           /\ call' = [op |-> "CodeGenData", function_name |-> function_name,
                       parameters |-> parameters, data |-> data, size |-> size,
                       ok |-> r.ok, what |-> r.what]
    /\ batch' = None
    /\ UNCHANGED <<build, kept>>

\* The caller calls internal::CodeGenMeta on its stream: on its own, or
\* after a CodeGenData that returned.
MetaCall(function_name, parameter_size, rows, cols) ==
    /\ os' = CodeGenMeta(function_name, parameter_size, rows, cols, os)
    /\ pc' = "meta"
    /\ batch' = call
    /\ call' = [op |-> "CodeGenMeta", function_name |-> function_name,
                parameter_size |-> parameter_size, rows |-> rows, cols |-> cols]
    /\ UNCHANGED <<build, kept>>

Lower ==
    /\ pc = "idle"
    /\ \E parameters \in ParameterLists, e \in Expressions :
            LowerCall(parameters, e)

Scalar ==
    /\ pc = "idle"
    /\ \E function_name \in FunctionNames, parameters \in ParameterLists,
          e \in Expressions :
            ScalarCall(function_name, parameters, e)

Data ==
    /\ pc = "idle"
    /\ \E parameters \in ParameterLists, data \in DataArrays :
          \E size \in 0..Len(data) :
            DataCall("f", parameters, data, size)

Meta ==
    /\ pc \in {"idle", "data"}
    /\ \E parameter_size \in 0..NumVars, rows \in 0..MaxCells, cols \in 0..MaxCells :
            MetaCall("f", parameter_size, rows, cols)

\* The caller is done with the outcome; the stream and the call's locals
\* are gone.
Discard ==
    /\ pc # "idle"
    /\ pc' = "idle"
    /\ call' = None
    /\ batch' = None
    /\ os' = ""
    /\ UNCHANGED <<build, kept>>

\* The caller keeps the outcome of a scalar call to compare a later call
\* against; the call's locals are gone.
Keep ==
    /\ pc = "scalar"
    /\ kept = None
    /\ kept' = call
    /\ pc' = "idle"
    /\ call' = None
    /\ batch' = None
    /\ os' = ""
    /\ UNCHANGED build

Next == Lower \/ Scalar \/ Data \/ Meta \/ Discard

Spec == Init /\ [][Next]_vars

(***************************************************************************)
(* The caller that repeats requests: the same calls, over the expressions  *)
(* whose outcome depends most on what a call could leave behind or on the  *)
(* build (a bound and an unbound variable, two failing operands, a sum),   *)
(* with lowerings and one-cell batch calls in between.                     *)
(***************************************************************************)
RepeatExprs ==
    {Variable(1),
     Binary("Division", IfThenElse, Variable(NumVars)),
     Binary("Atan2", Variable(1), UninterpretedFunction),
     Addition(Two, << <<Variable(1), One>>, <<Variable(NumVars), Three>> >>),
     Multiplication(Two, << <<Variable(1), UninterpretedFunction>> >>)}

ScalarAgain ==
    /\ pc = "idle"
    /\ \E function_name \in FunctionNames, parameters \in ParameterLists,
          e \in RepeatExprs :
            ScalarCall(function_name, parameters, e)

LowerAgain ==
    /\ pc = "idle"
    /\ \E parameters \in ParameterLists, e \in RepeatExprs :
            LowerCall(parameters, e)

DataAgain ==
    /\ pc = "idle"
    /\ \E parameters \in ParameterLists, e \in CellExprs :
            DataCall("f", parameters, <<e>>, 1)

NextRepeat == ScalarAgain \/ LowerAgain \/ DataAgain \/ Keep \/ Discard

SpecRepeat == Init /\ [][NextRepeat]_vars

(***************************************************************************)
(* Vocabulary of the properties: the structure of an expression, read off  *)
(* the tree itself and not off the visitor.                                *)
(***************************************************************************)
Range(seq) == {seq[i] : i \in DOMAIN seq}

\* The direct sub-expressions of e.
Children(e) ==
    CASE e.kind \in {"Addition"} -> {e.map[i][1] : i \in DOMAIN e.map}
      [] e.kind \in {"Multiplication"} ->
            {e.map[i][1] : i \in DOMAIN e.map} \cup {e.map[i][2] : i \in DOMAIN e.map}
      [] e.kind \in UnaryKinds -> {e.arg}
      [] e.kind \in BinaryKinds -> {e.first, e.second}
      [] OTHER -> {}

\* The identities of the variables e references, at any depth.
RECURSIVE VariablesOf(_)
VariablesOf(e) ==
    IF e.kind = "Variable" THEN {e.id}
    ELSE UNION {VariablesOf(c) : c \in Children(e)}

\* e contains an IfThenElse or UninterpretedFunction node, at any depth.
RECURSIVE HasUnsupported(_)
HasUnsupported(e) ==
    \/ e.kind \in {"IfThenElse", "UninterpretedFunction"}
    \/ \E c \in Children(e) : HasUnsupported(c)

ReferencesUnbound(parameters, e) == ~(VariablesOf(e) \subseteq Range(parameters))

UnsupportedConstruct == {UnsupportedIfThenElse, UnsupportedUninterpretedFunction}

\* The text p[i] of the parameter at zero-based position i, for i < 10.
ParameterText(i) ==
    CASE i = 0 -> "p[0]" [] i = 1 -> "p[1]" [] i = 2 -> "p[2]" [] i = 3 -> "p[3]"
      [] i = 4 -> "p[4]" [] i = 5 -> "p[5]" [] i = 6 -> "p[6]" [] i = 7 -> "p[7]"
      [] i = 8 -> "p[8]" [] i = 9 -> "p[9]"

\* The zero-based position of identity id in parameters (id is in it).
PositionOf(parameters, id) ==
    (CHOOSE i \in DOMAIN parameters : parameters[i] = id) - 1

\* The text the visitor returns for the sub-expression e under the binding
\* of parameters ("lower(e)").
LoweredText(parameters, e) ==
    CodeGenVisitor_CodeGen(IdToIndexMap(parameters), e).text

LowersFine(parameters, e) ==
    CodeGenVisitor_CodeGen(IdToIndexMap(parameters), e).ok

Lowered == pc = "lowered"

(***************************************************************************)
(* C1.  Binding completeness.                                              *)
(***************************************************************************)
\* C1 as stated: lowering a Variable whose identity is at zero-based position
\* i of the parameter list returns exactly p[i], and lowering an expression
\* that references, at any depth, a variable absent from the parameter list
\* throws the unbound-variable error.
C1_AsStated ==
    Lowered =>
        /\ (call.e.kind = "Variable" /\ call.e.id \in Range(call.parameters))
            => call.out = Returned(ParameterText(PositionOf(call.parameters, call.e.id)))
        /\ ReferencesUnbound(call.parameters, call.e)
            => call.out = Thrown(UnboundVariable)

\* C1 as amended: a bound Variable lowers to exactly p[i]; an expression that
\* references an absent variable never lowers to text: it throws, the
\* unbound-variable error if it holds no IfThenElse or UninterpretedFunction
\* node, and otherwise that error or the unsupported-construct error of the
\* node lowered first.
C1_BindingCompleteness ==
    Lowered =>
        /\ (call.e.kind = "Variable" /\ call.e.id \in Range(call.parameters))
            => call.out = Returned(ParameterText(PositionOf(call.parameters, call.e.id)))
        /\ ReferencesUnbound(call.parameters, call.e)
            => /\ ~call.out.ok
               /\ call.out.text = ""
               /\ call.out.what \in {UnboundVariable} \cup UnsupportedConstruct
               /\ ~HasUnsupported(call.e) => call.out.what = UnboundVariable

\* An expression that references an absent variable two levels down, beside
\* a bound one, has been lowered and has thrown the unbound-variable error.
C1_Witness ==
    /\ Lowered
    /\ call.parameters = <<2>>
    /\ call.e = Unary("Sqrt", Addition(Two, << <<Variable(1), Three>>, <<Variable(2), One>> >>))
    /\ call.out = Thrown(UnboundVariable)

(***************************************************************************)
(* C2.  Rejection of unsupported constructs by scalar generation.          *)
(***************************************************************************)
\* C2 as stated: CodeGen(function_name, parameters, e) of an expression that
\* contains an IfThenElse or UninterpretedFunction node at any depth throws
\* the unsupported-construct error and returns no text.
C2_AsStated ==
    (pc = "scalar" /\ HasUnsupported(call.e)) =>
        /\ ~call.out.ok
        /\ call.out.text = ""
        /\ call.out.what \in UnsupportedConstruct

\* C2 as amended: such a call always throws and returns no text; the error is
\* the unsupported-construct error if every variable the expression
\* references is in the parameter list, and otherwise that error or the
\* unbound-variable error of a variable lowered first.
C2_Rejection ==
    (pc = "scalar" /\ HasUnsupported(call.e)) =>
        /\ ~call.out.ok
        /\ call.out.text = ""
        /\ call.out.what \in {UnboundVariable} \cup UnsupportedConstruct
        /\ ~ReferencesUnbound(call.parameters, call.e)
            => call.out.what \in UnsupportedConstruct

\* CodeGen has been called on an expression with an IfThenElse node two
\* levels down, all variables bound, and has thrown.
C2_Witness ==
    /\ pc = "scalar"
    /\ call.parameters = <<1>>
    /\ call.e = Unary("Sqrt", Addition(Zero, << <<Variable(1), One>>, <<IfThenElse, Three>> >>))
    /\ call.out = Thrown(UnsupportedIfThenElse)

(***************************************************************************)
(* C3.  Batch generation leaves no partial output when a cell fails.       *)
(***************************************************************************)
\* C3: when the lowering of a cell throws inside CodeGenData, the caller's
\* stream holds nothing written by the call.
C3_NoPartialOutput == pc = "data_thrown" => os = ""

(***************************************************************************)
(* C4.  Operator fidelity.                                                 *)
(***************************************************************************)
\* C4: Pow(a, b) lowers to pow(<a>, <b>), Sin(a) to sin(<a>), Division(a, b)
\* to (<a> / <b>); with x at index i and y at index j, Sin(x) lowers to
\* exactly sin(p[i]), Pow(x, 2) to exactly pow(p[i], 2) and x / y to exactly
\* (p[i] / p[j]).
C4_OperatorFidelity ==
    (Lowered /\ call.out.ok) =>
        LET e == call.e
            P(v) == ParameterText(PositionOf(call.parameters, v.id))
            L(a) == LoweredText(call.parameters, a)
        IN  /\ e.kind = "Pow" =>
                call.out.text = "pow(" \o L(e.first) \o ", " \o L(e.second) \o ")"
            /\ e.kind = "Sin" => call.out.text = "sin(" \o L(e.arg) \o ")"
            /\ e.kind = "Division" =>
                call.out.text = "(" \o L(e.first) \o " / " \o L(e.second) \o ")"
            /\ (e.kind = "Sin" /\ e.arg.kind = "Variable") =>
                call.out.text = "sin(" \o P(e.arg) \o ")"
            /\ (e.kind = "Division" /\ e.first.kind = "Variable"
                    /\ e.second.kind = "Variable") =>
                call.out.text = "(" \o P(e.first) \o " / " \o P(e.second) \o ")"
            /\ (e.kind = "Pow" /\ e.first.kind = "Variable"
                    /\ e.second = Constant(Two)) =>
                call.out.text = "pow(" \o P(e.first) \o ", 2)"

(***************************************************************************)
(* C5.  Constants round-trip.                                              *)
(***************************************************************************)
DigitValue(ch) ==
    CASE ch = "0" -> 0 [] ch = "1" -> 1 [] ch = "2" -> 2 [] ch = "3" -> 3
      [] ch = "4" -> 4 [] ch = "5" -> 5 [] ch = "6" -> 6 [] ch = "7" -> 7
      [] ch = "8" -> 8 [] ch = "9" -> 9

\* The digits of text read as a number, most significant first.
RECURSIVE DigitsValue(_, _)
DigitsValue(text, acc) ==
    IF text = "" THEN acc
    ELSE DigitsValue(Tail(text), 10 * acc + DigitValue(Head(text)))

\* The position of the decimal point in text (0: none).
RECURSIVE PointAt(_, _)
PointAt(text, i) ==
    IF i > Len(text) THEN 0
    ELSE IF SubSeq(text, i, i) = "." THEN i ELSE PointAt(text, i + 1)

\* The double a C compiler reads from the fixed-notation literal text
\* ([-]digits[.digits]).
ParseDouble(text) ==
    LET neg  == text # "" /\ Head(text) = "-"
        body == IF neg THEN Tail(text) ELSE text
        pt   == PointAt(body, 1)
        int  == IF pt = 0 THEN body ELSE SubSeq(body, 1, pt - 1)
        frac == IF pt = 0 THEN "" ELSE SubSeq(body, pt + 1, Len(body))
    IN  Dec(neg, DigitsValue(int \o frac, 0), -Len(frac))

\* C5: the text a Constant lowers to parses back to exactly its value, and
\* no constant of another value lowers to the same text.
C5_RoundTrip ==
    (Lowered /\ call.e.kind = "Constant") =>
        /\ call.out.ok
        /\ ParseDouble(call.out.text) = call.e.v
        /\ \A v \in ConstantValues :
                v # call.e.v => LoweredText(call.parameters, Constant(v)) # call.out.text

(***************************************************************************)
(* C6.  Addition folding.                                                  *)
(***************************************************************************)
\* The text of the constants and coefficients the model draws, as the claim
\* writes them.
PlainText(c) ==
    CASE c = Zero -> "0" [] c = One -> "1" [] c = Two -> "2" [] c = Three -> "3"

\* " + " and the rendering of each term of map from item i on: the lowered
\* term alone for coefficient 1.0, "(" coefficient " * " term ")" otherwise.
RECURSIVE TermsText(_, _, _)
TermsText(parameters, map, i) ==
    IF i > Len(map) THEN ""
    ELSE " + "
         \o (IF map[i][2] = One THEN LoweredText(parameters, map[i][1])
             ELSE "(" \o PlainText(map[i][2]) \o " * "
                      \o LoweredText(parameters, map[i][1]) \o ")")
         \o TermsText(parameters, map, i + 1)

\* C6: Addition(c0, terms) lowers to "(" c0, then per term in map order
\* " + " and the term (unwrapped iff its coefficient is 1.0), then ")"; c0 is
\* emitted also when it is 0; it lowers at all iff every term does.
C6_AdditionFolding ==
    (Lowered /\ call.e.kind = "Addition") =>
        /\ call.out.ok <=>
              \A i \in DOMAIN call.e.map : LowersFine(call.parameters, call.e.map[i][1])
        /\ call.out.ok =>
              call.out.text = "(" \o PlainText(call.e.c)
                                  \o TermsText(call.parameters, call.e.map, 1) \o ")"
        /\ (call.parameters = <<1, 2>> /\ call.e.c = Zero
                /\ call.e.map = << <<Variable(1), Three>>, <<Variable(2), One>> >>)
              => call.out.text = "(0 + (3 * p[0]) + p[1])"

\* The spec's example: Addition(2, {(x, 1.0), (y, 3.0)}) with x at 1 and y at
\* 0 has been lowered to "(2 + p[1] + (3 * p[0]))".
C6_Witness ==
    /\ Lowered
    /\ call.parameters = <<2, 1>>
    /\ call.e = Addition(Two, << <<Variable(1), One>>, <<Variable(2), Three>> >>)
    /\ call.out = Returned("(2 + p[1] + (3 * p[0]))")

(***************************************************************************)
(* C7.  Multiplication folding.                                            *)
(***************************************************************************)
\* " * " and the rendering of each factor of map from item i on: the lowered
\* base alone when the exponent is the literal constant 1, a pow call
\* otherwise.
RECURSIVE FactorsText(_, _, _)
FactorsText(parameters, map, i) ==
    IF i > Len(map) THEN ""
    ELSE " * "
         \o (IF map[i][2] = [kind |-> "Constant", v |-> One]
             THEN LoweredText(parameters, map[i][1])
             ELSE "pow(" \o LoweredText(parameters, map[i][1]) \o ", "
                         \o LoweredText(parameters, map[i][2]) \o ")")
         \o FactorsText(parameters, map, i + 1)

\* C7: Multiplication(c0, factors) lowers to "(" c0, then per factor in map
\* order " * " and the base alone (exponent the literal constant 1) or
\* pow(base, exponent) (any other exponent), then ")".
C7_MultiplicationFolding ==
    (Lowered /\ call.e.kind = "Multiplication" /\ call.out.ok) =>
        /\ call.out.text = "(" \o PlainText(call.e.c)
                               \o FactorsText(call.parameters, call.e.map, 1) \o ")"
        /\ (call.parameters = <<1, 2>> /\ call.e.c = Two
                /\ call.e.map = << <<Variable(1), Constant(One)>>,
                                   <<Variable(2), Constant(Two)>> >>)
              => call.out.text = "(2 * p[0] * pow(p[1], 2.000000))"

\* A product with an exponent-1 factor and a factor with a non-constant
\* exponent has been lowered.
C7_Witness ==
    /\ Lowered
    /\ call.parameters = <<1, 2>>
    /\ call.e = Multiplication(Two, << <<Variable(1), Constant(One)>>,
                                       <<Variable(2), Variable(1)>> >>)
    /\ call.out = Returned("(2 * p[0] * pow(p[1], p[0]))")

(***************************************************************************)
(* C8.  Shape of the batch metadata.                                       *)
(***************************************************************************)
\* C8: a CodeGenMeta that follows a CodeGenData on the same stream and
\* returns has rows * cols equal to the number of cells written and its size
\* equal to the length of the parameter list (a mismatch would have failed
\* instead).
C8_ShapeChecked ==
    (pc = "meta" /\ batch.op = "CodeGenData") =>
        /\ call.rows * call.cols = batch.size
        /\ call.parameter_size = Len(batch.parameters)

(***************************************************************************)
(* C9.  The statements of a batch function.                                *)
(***************************************************************************)
\* The decimal text of an index below 10.
IndexText(i) ==
    CASE i = 0 -> "0" [] i = 1 -> "1" [] i = 2 -> "2" [] i = 3 -> "3"
      [] i = 4 -> "4" [] i = 5 -> "5" [] i = 6 -> "6" [] i = 7 -> "7"
      [] i = 8 -> "8" [] i = 9 -> "9"

ScalarHead(function_name) ==
    "double " \o function_name \o "(const double* p) {\n    return "

ScalarTail(function_name, parameters) ==
    ";\n}\ntypedef struct {\n    /* p: input, vector */\n"
    \o "    struct { int size; } p;\n} " \o function_name \o "_meta_t;\n"
    \o function_name \o "_meta_t " \o function_name \o "_meta() { return {{"
    \o IndexText(Len(parameters)) \o "}}; }\n"

\* The expression text that scalar generation returns for e: what stands
\* between "return " and ";" in the string CodeGen returns.
ScalarReturnText(function_name, parameters, e) ==
    LET t == CodeGen(function_name, parameters, e).text
    IN  SubSeq(t, Len(ScalarHead(function_name)) + 1,
               Len(t) - Len(ScalarTail(function_name, parameters)))

\* The statements m[i] = <scalar text of data[i]>; for the C++ indices i..size-1.
RECURSIVE StatementsText(_, _, _, _, _)
StatementsText(function_name, parameters, data, size, i) ==
    IF i >= size THEN ""
    ELSE "    m[" \o IndexText(i) \o "] = "
         \o ScalarReturnText(function_name, parameters, data[i + 1]) \o ";\n"
         \o StatementsText(function_name, parameters, data, size, i + 1)

\* C9: a CodeGenData that returns has written the header, then exactly size
\* statements m[i] = ...; for i = 0 .. size-1 in this order, then the footer,
\* the right-hand side of statement i being the text scalar generation
\* returns for data[i] under the same parameter list.
C9_BatchStatements ==
    pc = "data" =>
        /\ \A i \in 1..call.size :
              LET t == CodeGen(call.function_name, call.parameters, call.data[i])
              IN  /\ t.ok
                  /\ t.text = ScalarHead(call.function_name)
                                \o ScalarReturnText(call.function_name, call.parameters, call.data[i])
                                \o ScalarTail(call.function_name, call.parameters)
        /\ os = "void " \o call.function_name \o "(const double* p, double* m) {\n"
                \o StatementsText(call.function_name, call.parameters, call.data, call.size, 0)
                \o "}\n"

\* A two-cell batch has been generated whose cells use both parameters.
C9_Witness ==
    /\ pc = "data"
    /\ call.parameters = <<2, 1>>
    /\ call.size = 2
    /\ call.data = <<Addition(Zero, << <<Variable(1), One>>, <<Variable(NumVars), One>> >>),
                     Variable(1)>>
    /\ os = "void f(const double* p, double* m) {\n"
            \o "    m[0] = (0 + p[1] + p[" \o IndexText(PositionOf(<<2, 1>>, NumVars)) \o "]);\n"
            \o "    m[1] = p[1];\n}\n"

(***************************************************************************)
(* C10.  Determinism across requests.                                      *)
(***************************************************************************)
SameRequest ==
    /\ pc = "scalar"
    /\ kept.op = "CodeGen"
    /\ call.function_name = kept.function_name
    /\ call.parameters = kept.parameters
    /\ call.e = kept.e

====
